---- MODULE Spec2Model ----
(***************************************************************************)
(* TunnelManager of src/windows/main.py: one supervised child process, a   *)
(* threading.Lock, and the three operations start, stop and get_status,    *)
(* called from threads that run concurrently (the control server's request *)
(* handler, the monitor loop, the service stop hook).                      *)
(*                                                                         *)
(* Every step below is one point at which another thread can interleave:   *)
(* a lock acquisition, a read or a write of an attribute of the manager,   *)
(* an operating-system call (Popen, poll, terminate, kill, wait).          *)
(***************************************************************************)
EXTENDS Integers, FiniteSets, Sequences, TLC

\* ---------------------------------------------------------------- bounds
NumThreads == 3     \* threads that can call the manager
MaxSpawn == 2       \* children the model lets Popen create

\* ------------------------------------------------------ program constants
GracePolls == 50    \* for _ in range(50)

Threads == 1..NumThreads
\* The threads that make calls in the general specification Spec, where each
\* is free to call start, stop and get_status in any order; the start race
\* SpecStartRace has every thread of Threads call.
Callers == {1, 2}
NoThread == 0       \* the lock is free
NoProcess == 0      \* self.process is None
Pids == 1..MaxSpawn

\* username/appname pairs a caller can pass; the files that exist on disk
\* under each base directory are fixed.
Bases == {"alice", "bob", "carol"}
ExeExists(b) == b \in {"alice", "bob"}
CfgExists(b) == b \in {"alice", "carol"}

NoBase == "-"         \* no start call in progress
NoPath == <<>>
ExePath(b) == <<b, "sing-box.exe">>
CfgPath(b) == <<b, "sing-box-auto.json">>

VARIABLES
    process,        \* self.process: NoProcess or the Popen object (its pid)
    lock,           \* self.lock: NoThread or the thread holding it
    singbox_path,   \* self.singbox_path
    config_path,    \* self.config_path
    alive,          \* children alive at the operating system
    nextPid,        \* pid the next Popen gets
    termSent,       \* terminate() was called on: children alive or the handle's
    killSent,       \* kill() was called on: children alive or the handle's
    pc,             \* per thread: where it is in the call it makes
    arg,            \* per thread: the base directory of a start call
    polls,          \* per thread: iterations of stop's wait loop done
    rpid,           \* per thread: get_status, the pid it read
    rexe,           \* per thread: get_status, the singbox_path it read
    result,         \* per thread: what its last call returned
    obs,            \* per thread: the child was running at some moment of
                    \*   the get_status call in progress
    startedPids,    \* children alive that a start call returned as started
    stopInvoked,    \* a stop went past its running check and no start
                    \*   has returned started since
    mpc,            \* AppMonitor: where the monitor thread is in _monitor_loop
    monitor_is_running,     \* AppMonitor.is_running
    consecutive_failures,   \* AppMonitor.consecutive_failures
    seenPid,        \* the child the monitor's running check found alive
    probeLog,       \* the children seen by the failed probes made since the
                    \*   last successful probe, monitor stop or monitor start
    appDead,        \* the main application has stopped answering for good
    svc,            \* RMService: where the control handler is in SvcStop
    shutdown_request,       \* the HTTP server was asked to shut down
    conns           \* HTTP requests that clients sent and nobody answered yet

\* The state of the monitor, the service and the control server.
svcvars == <<mpc, monitor_is_running, consecutive_failures, seenPid, probeLog,
             appDead, svc, shutdown_request, conns>>

vars == <<process, lock, singbox_path, config_path, alive, nextPid, termSent,
          killSent, pc, arg, polls, rpid, rexe, result, obs, startedPids,
          stopInvoked, mpc, monitor_is_running, consecutive_failures, seenPid,
          probeLog, appDead, svc, shutdown_request, conns>>

\* ---------------------------------------------------------------- results
Res(s, p, e, c, m) ==
    [status |-> s, pid |-> p, singbox_path |-> e, config_path |-> c, message |-> m]
NoResult == Res("none", 0, NoPath, NoPath, "")
Pending == Res("pending", 0, NoPath, NoPath, "")
AlreadyRunning(p) == Res("already_running", p, NoPath, NoPath, "")
Started(p, e, c) == Res("started", p, e, c, "")
Running(p, e, c) == Res("running", p, e, c, "")
Stopped == Res("stopped", 0, NoPath, NoPath, "")
NotRunning == Res("not_running", 0, NoPath, NoPath, "")
Error(m) == Res("error", 0, NoPath, NoPath, m)
Raised(m) == Res("raised", 0, NoPath, NoPath, m)

\* A liveness check that trusts the handle and never polls the child.
is_running_unpolled == process /= NoProcess

\* self.process is not None and self.process.poll() is None, evaluated while
\* self.process cannot change (the caller holds the lock).
is_running == process /= NoProcess /\ process \in alive

StartPcs == {"s_lock", "s_check", "s_exe", "s_cfg", "s_exists", "s_spawn", "s_grace"}
StopPcs == {"t_lock", "t_check", "t_term", "t_wait", "t_final", "t_kill", "t_reap",
            "t_clear"}
StatusPcs == {"g_none", "g_poll", "g_pid", "g_exe", "g_cfg"}
\* The statements inside a with self.lock: block.
LockedPcs == (StartPcs \cup StopPcs) \ {"s_lock", "t_lock"}
\* The statements that read or write self.process.
ProcessAccessPcs == {"s_check", "s_spawn", "s_grace", "t_check", "t_term", "t_wait",
                     "t_final", "t_kill", "t_reap", "t_clear", "g_none", "g_poll",
                     "g_pid"}

\* The history variables termSent and killSent keep the children that are
\* alive or that the handle h stands for.
Known(S, a, h) == S \cap (a \cup {h})

\* The history variable obs follows every step.
Observe ==
    obs' = [t \in Threads |->
              IF pc'[t] \in StatusPcs THEN obs[t] \/ is_running' ELSE FALSE]

\* AppMonitor.__init__ and RMService.__init__: the monitor is not started, no
\* stop of the service was asked for, no request is waiting.
ServiceInit ==
    /\ mpc = "off"
    /\ monitor_is_running = FALSE
    /\ consecutive_failures = 0
    /\ seenPid = NoProcess
    /\ probeLog = <<>>
    /\ appDead = FALSE
    /\ svc = "run"
    /\ shutdown_request = FALSE
    /\ conns = 0

\* A lock that excludes nobody.
CanAcquireAlways(t) == TRUE

\* threading.Lock: acquire succeeds only on a free lock.
CanAcquire(t) == lock = NoThread

Init ==
    /\ process = NoProcess
    /\ lock = NoThread
    /\ singbox_path = NoPath
    /\ config_path = NoPath
    /\ alive = {}
    /\ nextPid = 1
    /\ termSent = {}
    /\ killSent = {}
    /\ pc = [t \in Threads |-> "idle"]
    /\ arg = [t \in Threads |-> NoBase]
    /\ polls = [t \in Threads |-> 0]
    /\ rpid = [t \in Threads |-> 0]
    /\ rexe = [t \in Threads |-> NoPath]
    /\ result = [t \in Threads |-> NoResult]
    /\ obs = [t \in Threads |-> FALSE]
    /\ startedPids = {}
    /\ stopInvoked = FALSE
    /\ ServiceInit

\* A step of thread t that returns r from a call made under the lock: the
\* with-block releases the lock on the way out.
ReturnLocked(t, r) ==
    /\ pc' = [pc EXCEPT ![t] = "idle"]
    /\ result' = [result EXCEPT ![t] = r]
    /\ arg' = [arg EXCEPT ![t] = NoBase]
    /\ lock' = NoThread

\* ------------------------------------------------------------------ start
\* A thread calls start(username, appname).
StartCall(t, b) ==
    /\ pc[t] = "idle"
    /\ pc' = [pc EXCEPT ![t] = "s_lock"]
    /\ arg' = [arg EXCEPT ![t] = b]
    /\ result' = [result EXCEPT ![t] = Pending]
    /\ UNCHANGED <<process, lock, singbox_path, config_path, alive, nextPid,
                   termSent, killSent, polls, rpid, rexe, startedPids, stopInvoked>>
    /\ UNCHANGED svcvars
    /\ Observe

\* with self.lock:
StartLock(t) ==
    /\ pc[t] = "s_lock"
    /\ CanAcquire(t)
    /\ lock' = t
    /\ pc' = [pc EXCEPT ![t] = "s_check"]
    /\ UNCHANGED <<process, singbox_path, config_path, alive, nextPid, termSent,
                   killSent, arg, polls, rpid, rexe, result, startedPids, stopInvoked>>
    /\ UNCHANGED svcvars
    /\ Observe

\* A running check that trusts the handle: a start that finds a handle
\* answers already_running whether or not the child is alive.
StartAlreadyRunningCached(t) ==
    /\ pc[t] = "s_check"
    /\ process /= NoProcess
    /\ ReturnLocked(t, AlreadyRunning(process))
    /\ UNCHANGED <<process, singbox_path, config_path, alive, nextPid, termSent,
                   killSent, polls, rpid, rexe, startedPids, stopInvoked>>
    /\ UNCHANGED svcvars
    /\ Observe

\* The paths recorded before the running check instead of after it.
StartAlreadyRunningRecords(t) ==
    /\ pc[t] = "s_check"
    /\ is_running
    /\ ReturnLocked(t, AlreadyRunning(process))
    /\ singbox_path' = ExePath(arg[t])
    /\ config_path' = CfgPath(arg[t])
    /\ UNCHANGED <<process, alive, nextPid, termSent, killSent, polls, rpid, rexe,
                   startedPids, stopInvoked>>
    /\ UNCHANGED svcvars
    /\ Observe

\* if self.is_running(): return already_running
StartAlreadyRunning(t) ==
    /\ pc[t] = "s_check"
    /\ is_running
    /\ ReturnLocked(t, AlreadyRunning(process))
    /\ UNCHANGED <<process, singbox_path, config_path, alive, nextPid, termSent,
                   killSent, polls, rpid, rexe, startedPids, stopInvoked>>
    /\ UNCHANGED svcvars
    /\ Observe

StartNotRunning(t) ==
    /\ pc[t] = "s_check"
    /\ ~is_running
    /\ pc' = [pc EXCEPT ![t] = "s_exe"]
    /\ UNCHANGED <<process, lock, singbox_path, config_path, alive, nextPid,
                   termSent, killSent, arg, polls, rpid, rexe, result, startedPids,
                   stopInvoked>>
    /\ UNCHANGED svcvars
    /\ Observe

\* self.singbox_path = os.path.join(base_path, "sing-box.exe")
StartSetExe(t) ==
    /\ pc[t] = "s_exe"
    /\ singbox_path' = ExePath(arg[t])
    /\ pc' = [pc EXCEPT ![t] = "s_cfg"]
    /\ UNCHANGED <<process, lock, config_path, alive, nextPid, termSent, killSent,
                   arg, polls, rpid, rexe, result, startedPids, stopInvoked>>
    /\ UNCHANGED svcvars
    /\ Observe

\* self.config_path = os.path.join(base_path, "sing-box-auto.json")
StartSetCfg(t) ==
    /\ pc[t] = "s_cfg"
    /\ config_path' = CfgPath(arg[t])
    /\ pc' = [pc EXCEPT ![t] = "s_exists"]
    /\ UNCHANGED <<process, lock, singbox_path, alive, nextPid, termSent, killSent,
                   arg, polls, rpid, rexe, result, startedPids, stopInvoked>>
    /\ UNCHANGED svcvars
    /\ Observe

\* if not os.path.exists(self.singbox_path): return error
StartExeMissing(t) ==
    /\ pc[t] = "s_exists"
    /\ ~ExeExists(arg[t])
    /\ ReturnLocked(t, Error("sing-box not found"))
    /\ UNCHANGED <<process, singbox_path, config_path, alive, nextPid, termSent,
                   killSent, polls, rpid, rexe, startedPids, stopInvoked>>
    /\ UNCHANGED svcvars
    /\ Observe

\* if not os.path.exists(self.config_path): return error
StartCfgMissing(t) ==
    /\ pc[t] = "s_exists"
    /\ ExeExists(arg[t])
    /\ ~CfgExists(arg[t])
    /\ ReturnLocked(t, Error("Config not found"))
    /\ UNCHANGED <<process, singbox_path, config_path, alive, nextPid, termSent,
                   killSent, polls, rpid, rexe, startedPids, stopInvoked>>
    /\ UNCHANGED svcvars
    /\ Observe

\* Only the executable checked, the configuration file forgotten.
StartPathsExistExeOnly(t) ==
    /\ pc[t] = "s_exists"
    /\ ExeExists(arg[t])
    /\ pc' = [pc EXCEPT ![t] = "s_spawn"]
    /\ UNCHANGED <<process, lock, singbox_path, config_path, alive, nextPid,
                   termSent, killSent, arg, polls, rpid, rexe, result, startedPids,
                   stopInvoked>>
    /\ UNCHANGED svcvars
    /\ Observe

StartPathsExist(t) ==
    /\ pc[t] = "s_exists"
    /\ ExeExists(arg[t])
    /\ CfgExists(arg[t])
    /\ pc' = [pc EXCEPT ![t] = "s_spawn"]
    /\ UNCHANGED <<process, lock, singbox_path, config_path, alive, nextPid,
                   termSent, killSent, arg, polls, rpid, rexe, result, startedPids,
                   stopInvoked>>
    /\ UNCHANGED svcvars
    /\ Observe

\* self.process = subprocess.Popen(...): a new child, alive, and the handle
\* to it.
StartSpawn(t) ==
    /\ pc[t] = "s_spawn"
    /\ nextPid <= MaxSpawn
    /\ process' = nextPid
    /\ alive' = alive \cup {nextPid}
    /\ nextPid' = nextPid + 1
    /\ pc' = [pc EXCEPT ![t] = "s_grace"]
    /\ termSent' = Known(termSent, alive, nextPid)
    /\ killSent' = Known(killSent, alive, nextPid)
    /\ UNCHANGED <<lock, singbox_path, config_path, arg, polls, rpid, rexe, result,
                   startedPids, stopInvoked>>
    /\ UNCHANGED svcvars
    /\ Observe

\* Popen raises (an OSError of the spawn): except Exception returns error
\* and self.process keeps the value it had.
StartSpawnFails(t) ==
    /\ pc[t] = "s_spawn"
    /\ ReturnLocked(t, Error("spawn failed"))
    /\ UNCHANGED <<process, singbox_path, config_path, alive, nextPid, termSent,
                   killSent, polls, rpid, rexe, startedPids, stopInvoked>>
    /\ UNCHANGED svcvars
    /\ Observe

\* The grace check left out: a child that has exited is reported started.
StartGraceUnchecked(t) ==
    /\ pc[t] = "s_grace"
    /\ process \notin alive
    /\ ReturnLocked(t, Started(process, singbox_path, config_path))
    /\ UNCHANGED <<process, singbox_path, config_path, alive, nextPid, termSent,
                   killSent, polls, rpid, rexe, startedPids, stopInvoked>>
    /\ UNCHANGED svcvars
    /\ Observe

\* time.sleep(0.5); if self.process.poll() is not None: return error
StartImmediateExit(t) ==
    /\ pc[t] = "s_grace"
    /\ process \notin alive
    /\ ReturnLocked(t, Error("Process exited immediately"))
    /\ UNCHANGED <<process, singbox_path, config_path, alive, nextPid, termSent,
                   killSent, polls, rpid, rexe, startedPids, stopInvoked>>
    /\ UNCHANGED svcvars
    /\ Observe

\* return started
StartStarted(t) ==
    /\ pc[t] = "s_grace"
    /\ process \in alive
    /\ ReturnLocked(t, Started(process, singbox_path, config_path))
    /\ startedPids' = startedPids \cup {process}
    /\ stopInvoked' = FALSE
    /\ UNCHANGED <<process, singbox_path, config_path, alive, nextPid, termSent,
                   killSent, polls, rpid, rexe>>
    /\ UNCHANGED svcvars
    /\ Observe

\* ------------------------------------------------------------ environment
\* A child exits, on its own or because it honours a terminate request.
ChildExit(p) ==
    /\ p \in alive
    /\ alive' = alive \ {p}
    /\ termSent' = Known(termSent, alive', process)
    /\ killSent' = Known(killSent, alive', process)
    /\ startedPids' = startedPids \ {p}
    /\ UNCHANGED <<process, lock, singbox_path, config_path, nextPid, pc, arg,
                   polls, rpid, rexe, result, stopInvoked>>
    /\ UNCHANGED svcvars
    /\ Observe

\* ------------------------------------------------------------------- stop
\* A thread calls stop().
StopCall(t) ==
    /\ pc[t] = "idle"
    /\ pc' = [pc EXCEPT ![t] = "t_lock"]
    /\ result' = [result EXCEPT ![t] = Pending]
    /\ UNCHANGED <<process, lock, singbox_path, config_path, alive, nextPid,
                   termSent, killSent, arg, polls, rpid, rexe, startedPids,
                   stopInvoked>>
    /\ UNCHANGED svcvars
    /\ Observe

\* with self.lock:
StopLock(t) ==
    /\ pc[t] = "t_lock"
    /\ CanAcquire(t)
    /\ lock' = t
    /\ pc' = [pc EXCEPT ![t] = "t_check"]
    /\ UNCHANGED <<process, singbox_path, config_path, alive, nextPid, termSent,
                   killSent, arg, polls, rpid, rexe, result, startedPids, stopInvoked>>
    /\ UNCHANGED svcvars
    /\ Observe

\* if not self.is_running(): return not_running
StopNotRunning(t) ==
    /\ pc[t] = "t_check"
    /\ ~is_running
    /\ ReturnLocked(t, NotRunning)
    /\ UNCHANGED <<process, singbox_path, config_path, alive, nextPid, termSent,
                   killSent, polls, rpid, rexe, startedPids, stopInvoked>>
    /\ UNCHANGED svcvars
    /\ Observe

StopRunning(t) ==
    /\ pc[t] = "t_check"
    /\ is_running
    /\ pc' = [pc EXCEPT ![t] = "t_term"]
    /\ stopInvoked' = TRUE
    /\ UNCHANGED <<process, lock, singbox_path, config_path, alive, nextPid,
                   termSent, killSent, arg, polls, rpid, rexe, result, startedPids>>
    /\ UNCHANGED svcvars
    /\ Observe

\* self.process.terminate(), delivered; the wait loop starts at its first
\* iteration.
StopTerminate(t) ==
    /\ pc[t] = "t_term"
    /\ termSent' = termSent \cup {process}
    /\ polls' = [polls EXCEPT ![t] = 0]
    /\ pc' = [pc EXCEPT ![t] = "t_wait"]
    /\ UNCHANGED <<process, lock, singbox_path, config_path, alive, nextPid,
                   killSent, arg, rpid, rexe, result, startedPids, stopInvoked>>
    /\ UNCHANGED svcvars
    /\ Observe

\* except Exception as e: self.process = None; return error
StopFailSafe(t, m) ==
    /\ process' = NoProcess
    /\ ReturnLocked(t, Error(m))
    /\ polls' = [polls EXCEPT ![t] = 0]
    /\ termSent' = Known(termSent, alive, NoProcess)
    /\ killSent' = Known(killSent, alive, NoProcess)
    /\ UNCHANGED <<singbox_path, config_path, alive, nextPid, rpid, rexe,
                   startedPids, stopInvoked>>
    /\ UNCHANGED svcvars
    /\ Observe

\* self.process.terminate() raises: Popen.terminate raises only for a child
\* that is still active, and nothing was delivered to it.
StopTerminateRaises(t) ==
    /\ pc[t] = "t_term"
    /\ process \in alive
    /\ StopFailSafe(t, "terminate failed")

\* for _ in range(50): if self.process.poll() is not None: break
StopPollExited(t) ==
    /\ pc[t] = "t_wait"
    /\ process \notin alive
    /\ pc' = [pc EXCEPT ![t] = "t_final"]
    /\ UNCHANGED <<process, lock, singbox_path, config_path, alive, nextPid,
                   termSent, killSent, arg, polls, rpid, rexe, result, startedPids,
                   stopInvoked>>
    /\ UNCHANGED svcvars
    /\ Observe

\* ... time.sleep(0.1), and the loop ends after its last iteration.
StopPollAlive(t) ==
    /\ pc[t] = "t_wait"
    /\ process \in alive
    /\ polls' = [polls EXCEPT ![t] = polls[t] + 1]
    /\ pc' = [pc EXCEPT ![t] = IF polls[t] + 1 = GracePolls THEN "t_final" ELSE "t_wait"]
    /\ UNCHANGED <<process, lock, singbox_path, config_path, alive, nextPid,
                   termSent, killSent, arg, rpid, rexe, result, startedPids,
                   stopInvoked>>
    /\ UNCHANGED svcvars
    /\ Observe

\* if self.process.poll() is None: (not taken)
StopFinalExited(t) ==
    /\ pc[t] = "t_final"
    /\ process \notin alive
    /\ pc' = [pc EXCEPT ![t] = "t_clear"]
    /\ UNCHANGED <<process, lock, singbox_path, config_path, alive, nextPid,
                   termSent, killSent, arg, polls, rpid, rexe, result, startedPids,
                   stopInvoked>>
    /\ UNCHANGED svcvars
    /\ Observe

\* No escalation: a child that outlived the wait loop is left alone.
StopFinalAliveNoKill(t) ==
    /\ pc[t] = "t_final"
    /\ process \in alive
    /\ pc' = [pc EXCEPT ![t] = "t_clear"]
    /\ UNCHANGED <<process, lock, singbox_path, config_path, alive, nextPid,
                   termSent, killSent, arg, polls, rpid, rexe, result, startedPids,
                   stopInvoked>>
    /\ UNCHANGED svcvars
    /\ Observe

\* if self.process.poll() is None: (taken)
StopFinalAlive(t) ==
    /\ pc[t] = "t_final"
    /\ process \in alive
    /\ pc' = [pc EXCEPT ![t] = "t_kill"]
    /\ UNCHANGED <<process, lock, singbox_path, config_path, alive, nextPid,
                   termSent, killSent, arg, polls, rpid, rexe, result, startedPids,
                   stopInvoked>>
    /\ UNCHANGED svcvars
    /\ Observe

\* self.process.kill(), delivered.
StopKill(t) ==
    /\ pc[t] = "t_kill"
    /\ killSent' = killSent \cup {process}
    /\ pc' = [pc EXCEPT ![t] = "t_reap"]
    /\ UNCHANGED <<process, lock, singbox_path, config_path, alive, nextPid,
                   termSent, arg, polls, rpid, rexe, result, startedPids, stopInvoked>>
    /\ UNCHANGED svcvars
    /\ Observe

\* self.process.kill() raises, as terminate() does.
StopKillRaises(t) ==
    /\ pc[t] = "t_kill"
    /\ process \in alive
    /\ StopFailSafe(t, "kill failed")

\* self.process.wait() returns once the child has exited.
StopWait(t) ==
    /\ pc[t] = "t_reap"
    /\ process \notin alive
    /\ pc' = [pc EXCEPT ![t] = "t_clear"]
    /\ UNCHANGED <<process, lock, singbox_path, config_path, alive, nextPid,
                   termSent, killSent, arg, polls, rpid, rexe, result, startedPids,
                   stopInvoked>>
    /\ UNCHANGED svcvars
    /\ Observe

\* self.process = None; return stopped
StopCleared(t) ==
    /\ pc[t] = "t_clear"
    /\ process' = NoProcess
    /\ ReturnLocked(t, Stopped)
    /\ polls' = [polls EXCEPT ![t] = 0]
    /\ termSent' = Known(termSent, alive, NoProcess)
    /\ killSent' = Known(killSent, alive, NoProcess)
    /\ UNCHANGED <<singbox_path, config_path, alive, nextPid, rpid, rexe,
                   startedPids, stopInvoked>>
    /\ UNCHANGED svcvars
    /\ Observe

\* ------------------------------------------------------------- get_status
\* A thread calls get_status(): no lock is taken.
StatusCall(t) ==
    /\ pc[t] = "idle"
    /\ pc' = [pc EXCEPT ![t] = "g_none"]
    /\ result' = [result EXCEPT ![t] = Pending]
    /\ UNCHANGED <<process, lock, singbox_path, config_path, alive, nextPid,
                   termSent, killSent, arg, polls, rpid, rexe, startedPids,
                   stopInvoked>>
    /\ UNCHANGED svcvars
    /\ Observe

\* A step of get_status that returns r (or leaves by an exception).
StatusReturn(t, r) ==
    /\ pc' = [pc EXCEPT ![t] = "idle"]
    /\ result' = [result EXCEPT ![t] = r]
    /\ rpid' = [rpid EXCEPT ![t] = 0]
    /\ rexe' = [rexe EXCEPT ![t] = NoPath]
    /\ UNCHANGED <<process, lock, singbox_path, config_path, alive, nextPid,
                   termSent, killSent, arg, polls, startedPids, stopInvoked>>
    /\ UNCHANGED svcvars
    /\ Observe

\* is_running: self.process is not None
StatusNone(t) ==
    /\ pc[t] = "g_none"
    /\ process = NoProcess
    /\ StatusReturn(t, Stopped)

StatusNotNone(t) ==
    /\ pc[t] = "g_none"
    /\ process /= NoProcess
    /\ pc' = [pc EXCEPT ![t] = "g_poll"]
    /\ UNCHANGED <<process, lock, singbox_path, config_path, alive, nextPid,
                   termSent, killSent, arg, polls, rpid, rexe, result, startedPids,
                   stopInvoked>>
    /\ UNCHANGED svcvars
    /\ Observe

\* is_running: self.process.poll() is None, self.process read a second time
StatusPollNone(t) ==
    /\ pc[t] = "g_poll"
    /\ process = NoProcess
    /\ StatusReturn(t, Raised("AttributeError"))

StatusPollExited(t) ==
    /\ pc[t] = "g_poll"
    /\ process /= NoProcess
    /\ process \notin alive
    /\ StatusReturn(t, Stopped)

StatusPollAlive(t) ==
    /\ pc[t] = "g_poll"
    /\ process \in alive
    /\ pc' = [pc EXCEPT ![t] = "g_pid"]
    /\ UNCHANGED <<process, lock, singbox_path, config_path, alive, nextPid,
                   termSent, killSent, arg, polls, rpid, rexe, result, startedPids,
                   stopInvoked>>
    /\ UNCHANGED svcvars
    /\ Observe

\* "pid": self.process.pid, self.process read a third time
StatusPidNone(t) ==
    /\ pc[t] = "g_pid"
    /\ process = NoProcess
    /\ StatusReturn(t, Raised("AttributeError"))

StatusPid(t) ==
    /\ pc[t] = "g_pid"
    /\ process /= NoProcess
    /\ rpid' = [rpid EXCEPT ![t] = process]
    /\ pc' = [pc EXCEPT ![t] = "g_exe"]
    /\ UNCHANGED <<process, lock, singbox_path, config_path, alive, nextPid,
                   termSent, killSent, arg, polls, rexe, result, startedPids,
                   stopInvoked>>
    /\ UNCHANGED svcvars
    /\ Observe

\* "singbox_path": self.singbox_path
StatusExe(t) ==
    /\ pc[t] = "g_exe"
    /\ rexe' = [rexe EXCEPT ![t] = singbox_path]
    /\ pc' = [pc EXCEPT ![t] = "g_cfg"]
    /\ UNCHANGED <<process, lock, singbox_path, config_path, alive, nextPid,
                   termSent, killSent, arg, polls, rpid, result, startedPids,
                   stopInvoked>>
    /\ UNCHANGED svcvars
    /\ Observe

\* "config_path": self.config_path; return running
StatusCfg(t) ==
    /\ pc[t] = "g_cfg"
    /\ StatusReturn(t, Running(rpid[t], rexe[t], config_path))

StartStep(t) ==
    \/ \E b \in Bases : StartCall(t, b)
    \/ StartLock(t)
    \/ StartAlreadyRunning(t)
    \/ StartNotRunning(t)
    \/ StartSetExe(t)
    \/ StartSetCfg(t)
    \/ StartExeMissing(t)
    \/ StartCfgMissing(t)
    \/ StartPathsExist(t)
    \/ StartSpawn(t)
    \/ StartSpawnFails(t)
    \/ StartImmediateExit(t)
    \/ StartStarted(t)

StopStep(t) ==
    \/ StopCall(t)
    \/ StopLock(t)
    \/ StopNotRunning(t)
    \/ StopRunning(t)
    \/ StopTerminate(t)
    \/ StopTerminateRaises(t)
    \/ StopPollExited(t)
    \/ StopPollAlive(t)
    \/ StopFinalExited(t)
    \/ StopFinalAlive(t)
    \/ StopKill(t)
    \/ StopKillRaises(t)
    \/ StopWait(t)
    \/ StopCleared(t)

StatusStep(t) ==
    \/ StatusCall(t)
    \/ StatusNone(t)
    \/ StatusNotNone(t)
    \/ StatusPollNone(t)
    \/ StatusPollExited(t)
    \/ StatusPollAlive(t)
    \/ StatusPidNone(t)
    \/ StatusPid(t)
    \/ StatusExe(t)
    \/ StatusCfg(t)

Next ==
    \/ \E t \in Callers : StartStep(t)
    \/ \E t \in Callers : StopStep(t)
    \/ \E t \in Callers : StatusStep(t)
    \/ \E p \in Pids : ChildExit(p)

Spec == Init /\ [][Next]_vars

\* --------------------------------------------- N concurrent start calls
\* Every thread calls start once, with paths that exist, against a stopped
\* manager: one that has never started anything, or one whose earlier child
\* has exited. The spawn succeeds and the new child stays alive.
ValidBases == {b \in Bases : ExeExists(b) /\ CfgExists(b)}

StartRaceInit ==
    /\ lock = NoThread
    /\ termSent = {}
    /\ killSent = {}
    /\ pc = [t \in Threads |-> "idle"]
    /\ arg = [t \in Threads |-> NoBase]
    /\ polls = [t \in Threads |-> 0]
    /\ rpid = [t \in Threads |-> 0]
    /\ rexe = [t \in Threads |-> NoPath]
    /\ result = [t \in Threads |-> NoResult]
    /\ obs = [t \in Threads |-> FALSE]
    /\ stopInvoked = FALSE
    /\ ServiceInit
    /\ alive = {}
    /\ \/ /\ process = NoProcess
          /\ nextPid = 1
          /\ singbox_path = NoPath
          /\ config_path = NoPath
          /\ startedPids = {}
       \/ \E b \in ValidBases :
          /\ process = 1
          /\ nextPid = 2
          /\ singbox_path = ExePath(b)
          /\ config_path = CfgPath(b)
          /\ startedPids = {1}

StartRaceNext ==
    \E t \in Threads :
        \/ result[t] = NoResult /\ \E b \in ValidBases : StartCall(t, b)
        \/ StartLock(t)
        \/ StartAlreadyRunning(t)
        \/ StartNotRunning(t)
        \/ StartSetExe(t)
        \/ StartSetCfg(t)
        \/ StartPathsExist(t)
        \/ StartSpawn(t)
        \/ StartStarted(t)

SpecStartRace == StartRaceInit /\ [][StartRaceNext]_vars

\* ============================================== monitor, server, service
\* The threads of the running service: the control server's thread, which
\* serves the requests one after the other, the monitor's thread, and the
\* thread on which the service control manager calls SvcStop.
HttpThread == 1
MonitorThread == 2
ControlThread == 3

\* self.max_failures
max_failures == 3

\* Requests that can wait for the control server at one time.
MaxConns == 2

\* The call thread t made has returned and its result was not consumed.
Returned(t) == pc[t] = "idle" /\ result[t].status \notin {"none", "pending"}

\* A step that belongs to the monitor loop alone.
MonitorOnly ==
    UNCHANGED <<process, lock, singbox_path, config_path, alive, nextPid,
                termSent, killSent, pc, arg, polls, rpid, rexe, startedPids,
                stopInvoked, appDead, svc, shutdown_request, conns>>

\* ------------------------------------------------------------- AppMonitor
\* AppMonitor.start(), called by SvcDoRun once the server answers.
AppMonitorStart ==
    /\ mpc = "off"
    /\ svc = "run"
    /\ ~monitor_is_running
    /\ monitor_is_running' = TRUE
    /\ consecutive_failures' = 0
    /\ probeLog' = <<>>
    /\ mpc' = "test"
    /\ UNCHANGED <<seenPid, result>>
    /\ MonitorOnly
    /\ Observe

\* while self.is_running: (taken) and a new cycle begins
MonLoopEnter ==
    /\ mpc = "test"
    /\ monitor_is_running
    /\ mpc' = "chk_none"
    /\ result' = [result EXCEPT ![MonitorThread] = NoResult]
    /\ UNCHANGED <<monitor_is_running, consecutive_failures, seenPid, probeLog>>
    /\ MonitorOnly
    /\ Observe

\* while self.is_running: (not taken), _monitor_loop returns
MonLoopExit ==
    /\ mpc = "test"
    /\ ~monitor_is_running
    /\ mpc' = "exited"
    /\ UNCHANGED <<monitor_is_running, consecutive_failures, seenPid, probeLog,
                   result>>
    /\ MonitorOnly
    /\ Observe

\* The cycle goes to time.sleep(self.check_interval), in the try block or in
\* the except block.
MonToSleep ==
    /\ mpc' = "sleep"
    /\ UNCHANGED <<monitor_is_running, consecutive_failures, seenPid, probeLog,
                   result>>
    /\ MonitorOnly
    /\ Observe

\* A cycle that finds no tunnel and forgets the failures counted so far.
MonCheckNoneResets ==
    /\ mpc = "chk_none"
    /\ process = NoProcess
    /\ consecutive_failures' = 0
    /\ mpc' = "sleep"
    /\ UNCHANGED <<monitor_is_running, seenPid, probeLog, result>>
    /\ MonitorOnly
    /\ Observe

\* if self.tunnel_manager.is_running(): self.process is None, no probe
MonCheckNone ==
    /\ mpc = "chk_none"
    /\ process = NoProcess
    /\ MonToSleep

\* ... self.process is not None
MonCheckNotNone ==
    /\ mpc = "chk_none"
    /\ process /= NoProcess
    /\ mpc' = "chk_poll"
    /\ UNCHANGED <<monitor_is_running, consecutive_failures, seenPid, probeLog,
                   result>>
    /\ MonitorOnly
    /\ Observe

\* An exception of the cycle that is not caught: it ends the loop.
MonCheckPollNoneDies ==
    /\ mpc = "chk_poll"
    /\ process = NoProcess
    /\ mpc' = "exited"
    /\ UNCHANGED <<monitor_is_running, consecutive_failures, seenPid, probeLog,
                   result>>
    /\ MonitorOnly
    /\ Observe

\* ... self.process.poll(), self.process read a second time and found None:
\* AttributeError, caught by the except block of the loop
MonCheckPollNone ==
    /\ mpc = "chk_poll"
    /\ process = NoProcess
    /\ MonToSleep

\* ... the child has exited, no probe
MonCheckPollExited ==
    /\ mpc = "chk_poll"
    /\ process /= NoProcess
    /\ process \notin alive
    /\ MonToSleep

\* A running check that answers False for a child that is alive.
MonCheckPollAliveSkips ==
    /\ mpc = "chk_poll"
    /\ process \in alive
    /\ MonToSleep

\* ... the child is alive: app_alive = self._check_app_alive() begins
MonCheckPollAlive ==
    /\ mpc = "chk_poll"
    /\ process \in alive
    /\ seenPid' = process
    /\ mpc' = "probe"
    /\ UNCHANGED <<monitor_is_running, consecutive_failures, probeLog, result>>
    /\ MonitorOnly
    /\ Observe

\* The probe answers pong: self.consecutive_failures = 0
MonProbeOk ==
    /\ mpc = "probe"
    /\ ~appDead
    /\ consecutive_failures' = 0
    /\ probeLog' = <<>>
    /\ seenPid' = NoProcess
    /\ mpc' = "sleep"
    /\ UNCHANGED <<monitor_is_running, result>>
    /\ MonitorOnly
    /\ Observe

\* A threshold test that lets the counter go past max_failures before it
\* stops the tunnel.
MonProbeFailLate ==
    /\ mpc = "probe"
    /\ consecutive_failures' = consecutive_failures + 1
    /\ probeLog' = IF Len(probeLog) < max_failures
                   THEN Append(probeLog, seenPid) ELSE probeLog
    /\ seenPid' = NoProcess
    /\ mpc' = IF consecutive_failures + 1 > max_failures THEN "trigger" ELSE "sleep"
    /\ UNCHANGED <<monitor_is_running, result>>
    /\ MonitorOnly
    /\ Observe

\* The probe fails: self.consecutive_failures += 1, and the threshold test
MonProbeFail ==
    /\ mpc = "probe"
    /\ consecutive_failures' = consecutive_failures + 1
    /\ probeLog' = IF Len(probeLog) < max_failures
                   THEN Append(probeLog, seenPid) ELSE probeLog
    /\ seenPid' = NoProcess
    /\ mpc' = IF consecutive_failures + 1 >= max_failures THEN "trigger" ELSE "sleep"
    /\ UNCHANGED <<monitor_is_running, result>>
    /\ MonitorOnly
    /\ Observe

\* result = self.tunnel_manager.stop(): the call and its steps, made by the
\* monitor's thread
MonStop ==
    /\ mpc = "trigger"
    /\ pc[MonitorThread] = "idle" => result[MonitorThread] = NoResult
    /\ StopStep(MonitorThread)

\* A counter that is reset only after a stop that answered stopped.
MonStopReturnedKeeps ==
    /\ mpc = "trigger"
    /\ Returned(MonitorThread)
    /\ consecutive_failures' = IF result[MonitorThread] = Stopped
                               THEN 0 ELSE consecutive_failures
    /\ probeLog' = <<>>
    /\ mpc' = "sleep"
    /\ UNCHANGED <<monitor_is_running, seenPid, result>>
    /\ MonitorOnly
    /\ Observe

\* The stop has returned: self.consecutive_failures = 0
MonStopReturned ==
    /\ mpc = "trigger"
    /\ Returned(MonitorThread)
    /\ consecutive_failures' = 0
    /\ probeLog' = <<>>
    /\ mpc' = "sleep"
    /\ UNCHANGED <<monitor_is_running, seenPid, result>>
    /\ MonitorOnly
    /\ Observe

\* time.sleep(self.check_interval) returns
MonSleep ==
    /\ mpc = "sleep"
    /\ mpc' = "test"
    /\ UNCHANGED <<monitor_is_running, consecutive_failures, seenPid, probeLog,
                   result>>
    /\ MonitorOnly
    /\ Observe

\* A step of a cycle of the loop.
MonitorCycle ==
    \/ MonLoopEnter
    \/ MonCheckNone
    \/ MonCheckNotNone
    \/ MonCheckPollNone
    \/ MonCheckPollExited
    \/ MonCheckPollAlive
    \/ MonProbeOk
    \/ MonProbeFail
    \/ MonStop
    \/ MonStopReturned
    \/ MonSleep

MonitorStep ==
    \/ MonitorCycle
    \/ MonLoopExit

\* ------------------------------------------------------ ControlHTTPServer
\* A step that belongs to the control server alone.
ServerOnly ==
    UNCHANGED <<process, lock, singbox_path, config_path, alive, nextPid,
                termSent, killSent, pc, arg, polls, rpid, rexe, startedPids,
                stopInvoked, mpc, monitor_is_running, consecutive_failures,
                seenPid, probeLog, appDead, svc, shutdown_request>>

\* A client sends a request; it waits in the listening socket's queue.
ClientConnect ==
    /\ conns < MaxConns
    /\ conns' = conns + 1
    /\ UNCHANGED result
    /\ ServerOnly
    /\ Observe

\* serve_forever: the server's one thread is between two requests, a request
\* is waiting and no shutdown was asked for, so it takes the request.
HttpReady ==
    /\ pc[HttpThread] = "idle"
    /\ result[HttpThread] = NoResult
    /\ conns > 0
    /\ ~shutdown_request

\* do_GET, /start with both parameters: tunnel_manager.start(username, appname)
HttpStart ==
    /\ pc[HttpThread] = "idle" => HttpReady
    /\ StartStep(HttpThread)

\* do_GET, /stop: tunnel_manager.stop()
HttpStop ==
    /\ pc[HttpThread] = "idle" => HttpReady
    /\ StopStep(HttpThread)

\* do_GET, /status: tunnel_manager.get_status()
HttpStatus ==
    /\ pc[HttpThread] = "idle" => HttpReady
    /\ StatusStep(HttpThread)

\* do_GET, /ping, /start without its parameters, an unknown path: answered
\* without a call to the manager.
HttpPing ==
    /\ HttpReady
    /\ conns' = conns - 1
    /\ UNCHANGED result
    /\ ServerOnly
    /\ Observe

\* _send_json_response with what the manager returned, or the 500 answer of
\* do_GET's except block; the thread goes back to serve_forever.
HttpRespond ==
    /\ Returned(HttpThread)
    /\ conns' = conns - 1
    /\ result' = [result EXCEPT ![HttpThread] = NoResult]
    /\ ServerOnly
    /\ Observe

HttpStep ==
    \/ ClientConnect
    \/ HttpStart
    \/ HttpStop
    \/ HttpStatus
    \/ HttpPing
    \/ HttpRespond

\* -------------------------------------------------------- RMService.SvcStop
\* A step that belongs to SvcStop alone.
ControlOnly ==
    UNCHANGED <<process, lock, singbox_path, config_path, alive, nextPid,
                termSent, killSent, pc, arg, polls, rpid, rexe, result,
                startedPids, stopInvoked, mpc, consecutive_failures, seenPid,
                probeLog, appDead, conns>>

\* The service control manager calls SvcStop: self.is_alive = False
SvcStopCall ==
    /\ svc = "run"
    /\ svc' = "cancel"
    /\ UNCHANGED <<monitor_is_running, shutdown_request>>
    /\ ControlOnly
    /\ Observe

\* self.app_monitor.stop(): self.is_running = False
SvcCancelMonitor ==
    /\ svc = "cancel"
    /\ monitor_is_running' = FALSE
    /\ svc' = "join"
    /\ UNCHANGED shutdown_request
    /\ ControlOnly
    /\ Observe

\* SvcStop goes on to its step s.
SvcGoto(s) ==
    /\ svc' = s
    /\ UNCHANGED <<monitor_is_running, shutdown_request>>
    /\ ControlOnly
    /\ Observe

\* self.thread.join(timeout=5) returns: the monitor's thread has ended, or
\* five seconds have passed, or there is no thread.
SvcJoinMonitor ==
    /\ svc = "join"
    /\ SvcGoto("tunnel")

\* app_monitor.stop() raises after the flag was cleared: except, log
SvcMonitorStopRaises ==
    /\ svc = "join"
    /\ SvcGoto("tunnel")

\* self.tunnel_manager.stop(): the call and its steps, made by SvcStop's thread
SvcTunnelStop ==
    /\ svc = "tunnel"
    /\ pc[ControlThread] = "idle" => result[ControlThread] = NoResult
    /\ StopStep(ControlThread)

\* tunnel_manager.stop() has returned
SvcTunnelStopped ==
    /\ svc = "tunnel"
    /\ Returned(ControlThread)
    /\ SvcGoto("shutdown")

\* The try block around tunnel_manager.stop() is left by an exception before
\* the manager was entered: except, log
SvcTunnelStopRaises ==
    /\ svc = "tunnel"
    /\ pc[ControlThread] = "idle"
    /\ result[ControlThread] = NoResult
    /\ SvcGoto("shutdown")

\* self.http_server.shutdown(): the request flag of serve_forever is set
SvcShutdownRequest ==
    /\ svc = "shutdown"
    /\ shutdown_request' = TRUE
    /\ svc' = "shut_wait"
    /\ UNCHANGED monitor_is_running
    /\ ControlOnly
    /\ Observe

\* ... and shutdown() returns once serve_forever has left its loop, which it
\* does between two requests.
SvcShutdownDone ==
    /\ svc = "shut_wait"
    /\ pc[HttpThread] = "idle"
    /\ result[HttpThread] = NoResult
    /\ SvcGoto("event")

\* A failed shutdown() that ends SvcStop.
SvcShutdownRaisesAborts ==
    /\ svc = "shutdown"
    /\ SvcGoto("aborted")

\* http_server.shutdown() raises: except, log
SvcShutdownRaises ==
    /\ svc = "shutdown"
    /\ SvcGoto("event")

\* win32event.SetEvent(self.stop_event)
SvcSetEvent ==
    /\ svc = "event"
    /\ SvcGoto("done")

SvcStopStep ==
    \/ SvcStopCall
    \/ SvcCancelMonitor
    \/ SvcJoinMonitor
    \/ SvcTunnelStop
    \/ SvcTunnelStopped
    \/ SvcShutdownRequest
    \/ SvcShutdownDone
    \/ SvcSetEvent

\* --------------------------------------------------------- specifications
\* The service at work: the control server serves requests, the monitor
\* probes the application, children exit when they please.
ServiceNext ==
    \/ AppMonitorStart
    \/ MonitorCycle
    \/ HttpStep
    \/ \E p \in Pids : ChildExit(p)

SpecService == Init /\ [][ServiceNext]_vars

\* The service is stopped while it works: SvcStop runs against the monitor
\* and against the control server, which serves /start and /ping requests.
ShutdownNext ==
    \/ AppMonitorStart
    \/ MonitorStep
    \/ ClientConnect
    \/ HttpStart
    \/ HttpPing
    \/ HttpRespond
    \/ SvcStopStep
    \/ \E p \in Pids : ChildExit(p)

SpecShutdown == Init /\ [][ShutdownNext]_vars

\* The service with a managed child that a /start request started for a
\* base directory with both files, and with the monitor at work.
RunningInit ==
    /\ lock = NoThread
    /\ termSent = {}
    /\ killSent = {}
    /\ pc = [t \in Threads |-> "idle"]
    /\ arg = [t \in Threads |-> NoBase]
    /\ polls = [t \in Threads |-> 0]
    /\ rpid = [t \in Threads |-> 0]
    /\ rexe = [t \in Threads |-> NoPath]
    /\ result = [t \in Threads |-> NoResult]
    /\ obs = [t \in Threads |-> FALSE]
    /\ stopInvoked = FALSE
    /\ process = 1
    /\ alive = {1}
    /\ nextPid = 2
    /\ startedPids = {1}
    /\ \E b \in ValidBases :
          /\ singbox_path = ExePath(b)
          /\ config_path = CfgPath(b)
    /\ mpc = "test"
    /\ monitor_is_running = TRUE
    /\ consecutive_failures = 0
    /\ seenPid = NoProcess
    /\ probeLog = <<>>
    /\ appDead = FALSE
    /\ svc = "run"
    /\ shutdown_request = FALSE
    /\ conns = 0

\* A child that was sent kill() dies.
ChildKilled(p) ==
    /\ p \in killSent
    /\ ChildExit(p)

\* SvcStop with the failures its except blocks are there for, against the
\* monitor, the child and a control server that serves /status requests.
SvcStopOrRaise ==
    \/ SvcStopStep
    \/ SvcMonitorStopRaises
    \/ SvcTunnelStopRaises
    \/ SvcShutdownRaises

HttpServesStatus ==
    \/ HttpStatus
    \/ HttpRespond

StopHookNext ==
    \/ MonitorStep
    \/ SvcStopOrRaise
    \/ ClientConnect
    \/ HttpServesStatus
    \/ \E p \in Pids : ChildExit(p)

\* Each thread is scheduled again and again, every wait of SvcStop is one for
\* another thread's progress (the lock, serve_forever leaving its loop) or
\* has a timeout (join), and the operating system ends a child that was
\* killed.
SpecStopHook ==
    /\ RunningInit
    /\ [][StopHookNext]_vars
    /\ WF_vars(SvcStopOrRaise)
    /\ WF_vars(MonitorStep)
    /\ WF_vars(HttpServesStatus)
    /\ WF_vars(\E p \in Pids : ChildKilled(p))

\* The main application stops answering and never answers again.
AppDies ==
    /\ ~appDead
    /\ appDead' = TRUE
    /\ UNCHANGED <<process, lock, singbox_path, config_path, alive, nextPid,
                   termSent, killSent, pc, arg, polls, rpid, rexe, result,
                   startedPids, stopInvoked, mpc, monitor_is_running,
                   consecutive_failures, seenPid, probeLog, svc,
                   shutdown_request, conns>>
    /\ Observe

\* The monitor alone with the child: nobody calls the manager but the
\* monitor, nobody cancels the monitor.
MonitorAlone ==
    \/ MonLoopEnter
    \/ MonCheckNone
    \/ MonCheckNotNone
    \/ MonCheckPollExited
    \/ MonCheckPollAlive
    \/ MonProbeOk
    \/ MonProbeFail
    \/ MonStop
    \/ MonStopReturned
    \/ MonSleep

MonitorLiveNext ==
    \/ MonitorAlone
    \/ AppDies
    \/ \E p \in Pids : ChildExit(p)

\* The monitor's thread is scheduled again and again (it is a thread of its
\* own whose sleeps and probes have timeouts), and the operating system ends
\* a child that was killed.
SpecMonitorLive ==
    /\ RunningInit
    /\ [][MonitorLiveNext]_vars
    /\ WF_vars(MonitorAlone)
    /\ WF_vars(\E p \in Pids : ChildKilled(p))

\* ================================================================ claims
StartedThreads == {t \in Threads : result[t].status = "started"}
ReturnedThreads == {t \in Threads : result[t].status \notin {"none", "pending"}}

\* C1. Mutual exclusion of start: of the start calls racing against a
\* stopped manager at most one child is ever alive, every call that has
\* returned answered started or already_running with the pid of that one
\* child, at most one answered started, an already_running answer comes
\* with a started one, and once all have returned exactly one answered
\* started.
StartMutualExclusion ==
    /\ Cardinality(alive) <= 1
    /\ Cardinality(StartedThreads) <= 1
    /\ \A t \in ReturnedThreads :
          /\ result[t].status \in {"started", "already_running"}
          /\ result[t].pid = process
          /\ alive = {process}
          /\ StartedThreads /= {}
    /\ ReturnedThreads = Threads => Cardinality(StartedThreads) = 1

StartRaceOver ==
    /\ ReturnedThreads = Threads
    /\ \E t \in Threads : result[t].status = "already_running"

\* C2. At most one spawned child is alive at the operating system, in
\* every reachable state.
AtMostOneChildAlive == Cardinality(alive) <= 1

\* C3. Lock discipline: a thread about to read or write self.process holds
\* the lock, and no get_status runs while another thread holds it.
LockHeldOnProcessAccess ==
    \A t \in Threads :
        /\ pc[t] \in ProcessAccessPcs => lock = t
        /\ pc[t] \in StatusPcs => lock \in {NoThread, t}

\* C4. No call of start, stop or get_status leaves by an exception, and
\* the lock is held only by a thread inside a start or stop.
NoCallRaises ==
    /\ \A t \in Threads : result[t].status /= "raised"
    /\ lock /= NoThread => pc[lock] \in LockedPcs

\* C5. Idempotent start: a start call that finds the child alive at its
\* running check answers already_running with the pid of the handle, which
\* is a pid an earlier start returned as started, and changes neither the
\* handle, the children, the spawn count nor the recorded paths.
IdempotentStart ==
    [][\A t \in Threads :
          (pc[t] = "s_check" /\ pc'[t] /= "s_check" /\ process \in alive)
          => /\ result'[t] = AlreadyRunning(process)
             /\ process \in startedPids
             /\ pc'[t] = "idle"
             /\ UNCHANGED <<process, alive, nextPid, singbox_path, config_path>>]_vars

SecondStartAnswered ==
    \E t \in Threads : result[t].status = "already_running"

\* C6. Idempotent stop: a stop call that finds nothing running at its
\* running check (no handle, or the handle of a child that has exited)
\* answers not_running, calls neither terminate nor kill, leaves the
\* handle and the children as they are, and releases the lock.
IdempotentStop ==
    [][\A t \in Threads :
          (pc[t] = "t_check" /\ pc'[t] /= "t_check"
             /\ (process = NoProcess \/ process \notin alive))
          => /\ result'[t] = NotRunning
             /\ pc'[t] = "idle"
             /\ lock' = NoThread
             /\ UNCHANGED <<process, alive, termSent, killSent>>]_vars

StopOnExitedChild ==
    \E t \in Threads :
        /\ result[t] = NotRunning
        /\ process /= NoProcess
        /\ process \notin alive

\* A get_status call answers running only if the child was running at some
\* moment of that call: a call made while nothing runs answers stopped.
StatusRunningWasRunning(t) ==
    (pc[t] \in StatusPcs /\ pc'[t] = "idle" /\ result'[t].status = "running")
    => obs[t]

\* The manager goes from not running to running only by a spawn.
RunningOnlyBySpawn ==
    (~(process \in alive) /\ process' \in alive')
    => \E t \in Threads : pc[t] = "s_spawn" /\ pc'[t] = "s_grace"

\* C7. Immediate exit: a start whose child has exited at the grace check
\* answers error "Process exited immediately" and leaves the manager not
\* running; from then on it is not running until a start spawns again, a
\* get_status made while it is not running answers stopped, and a start
\* answers already_running only if it finds the child alive.
ImmediateExitHandling ==
    [][/\ RunningOnlyBySpawn
       /\ \A t \in Threads :
            /\ (pc[t] = "s_grace" /\ pc'[t] /= "s_grace" /\ process \notin alive)
               => /\ result'[t] = Error("Process exited immediately")
                  /\ process' \notin alive'
                  /\ lock' = NoThread
            /\ StatusRunningWasRunning(t)
            /\ result'[t].status = "already_running" /\ pc[t] = "s_check"
               => process \in alive]_vars

ImmediateExitSeen ==
    \E t, u \in Threads :
        /\ result[t] = Error("Process exited immediately")
        /\ result[u] = Stopped
        /\ process /= NoProcess
        /\ process \notin alive

PathsMissing(b) == ~(ExeExists(b) /\ CfgExists(b))
NotFound == {Error("sing-box not found"), Error("Config not found")}

\* C8 as claimed. Every start call whose executable or configuration path
\* does not exist answers error "not found".
MissingPathAlwaysError ==
    [][\A t \in Threads :
          (pc[t] \in StartPcs /\ pc'[t] = "idle" /\ PathsMissing(arg[t]))
          => result'[t] \in NotFound]_vars

\* C8 as amended. A start call whose executable or configuration path does
\* not exist, made while no managed process is running, answers error "not
\* found", never reaches the spawn, leaves the handle, the children and the
\* spawn count as they are and the manager not running; a get_status made
\* while it is not running answers stopped.
MissingPathStart ==
    [][\A t \in Threads :
          /\ (pc[t] \in StartPcs /\ pc'[t] = "idle" /\ PathsMissing(arg[t])
                /\ process \notin alive)
             => /\ result'[t] \in NotFound
                /\ result'[t] = Error("sing-box not found") <=> ~ExeExists(arg[t])
                /\ process' \notin alive'
                /\ UNCHANGED <<process, alive, nextPid>>
          /\ pc'[t] \in {"s_spawn", "s_grace"} => ~PathsMissing(arg'[t])
          /\ StatusRunningWasRunning(t)]_vars

MissingPathAnswered ==
    /\ \E t \in Threads : result[t] = Error("Config not found")
    /\ \E t \in Threads : result[t] = Stopped

\* C9. Escalation: kill is sent only by the stop that holds the lock,
\* after terminate and all GracePolls polls, once the poll after the loop
\* has found the child alive; a stop whose child is alive at that poll
\* goes on to kill and, the kill sent, waits until the child is dead,
\* clears the handle and answers stopped (a kill that raises instead ends
\* in the except clause: handle cleared, error); whenever stop answers
\* stopped the child it stopped is dead and the handle is clear.
Escalation ==
    [][\A t \in Threads :
          /\ (pc[t] = "t_final" /\ pc'[t] /= "t_final" /\ process \in alive)
             => pc'[t] = "t_kill"
          /\ pc'[t] = "t_kill" /\ pc[t] /= "t_kill"
             => /\ polls[t] = GracePolls
                /\ process \in alive
                /\ process \in termSent
                /\ lock = t
          /\ ~(killSent' \subseteq killSent)
             => /\ killSent' = killSent \cup {process}
                /\ \E u \in Threads : pc[u] = "t_kill" /\ pc'[u] = "t_reap"
          /\ pc[t] = "t_kill" /\ pc'[t] /= "t_kill"
             => \/ pc'[t] = "t_reap" /\ process \in killSent'
                \/ /\ process \in alive
                   /\ result'[t] = Error("kill failed")
                   /\ process' = NoProcess
          /\ pc[t] = "t_reap" /\ pc'[t] /= "t_reap"
             => process \notin alive /\ pc'[t] = "t_clear"
          /\ pc[t] = "t_clear" /\ pc'[t] /= "t_clear"
             => result'[t] = Stopped /\ pc'[t] = "idle"
          /\ (pc[t] \in StopPcs /\ pc'[t] = "idle" /\ result'[t].status = "stopped")
             => /\ process \notin alive
                /\ process' = NoProcess
                /\ lock' = NoThread]_vars

EscalatedStopReaped ==
    \E t \in Threads :
        /\ pc[t] = "t_clear"
        /\ polls[t] = GracePolls
        /\ process \in killSent
        /\ process \notin alive

\* C10. Fail-safe stop: a stop whose terminate or kill raises clears the
\* handle and answers error, and after a stop has gone past its running
\* check no get_status answers running until a start has answered started.
NoRunningAfterStopInvoked ==
    [][\A t \in Threads :
          /\ (pc[t] \in {"t_term", "t_kill"} /\ pc'[t] = "idle")
             => process' = NoProcess /\ result'[t].status = "error"
          /\ (pc[t] \in StatusPcs /\ pc'[t] = "idle" /\ result'[t].status = "running")
             => ~stopInvoked]_vars

\* ------------------------------------------------------ the health monitor
\* The step by which the monitor's thread calls tunnel_manager.stop().
MonitorInvokesStop ==
    pc[MonitorThread] = "idle" /\ pc'[MonitorThread] = "t_lock"

\* The step by which a probe ends, and its outcome as the log of failed
\* probes tells it.
ProbeEnds == mpc = "probe" /\ mpc' /= "probe"
ProbeFailed == ProbeEnds /\ probeLog' = Append(probeLog, seenPid)

\* C11. Health threshold: the monitor calls the manager's stop exactly when
\* a failed probe is the third failed probe in a row (no successful probe,
\* monitor stop or monitor start in between), and once for those three: the
\* third failure leads to the call, nothing else does, and the call is not
\* repeated before it returned and the three failures were forgotten. A
\* first or second failure leads to no stop, and a successful probe leaves
\* the counter at 0 and leads to no stop.
HealthThreshold ==
    [][ /\ MonitorInvokesStop =>
              /\ Len(probeLog) = max_failures
              /\ result[MonitorThread] = NoResult
        /\ ProbeEnds =>
              /\ ProbeFailed \/ probeLog' = <<>>
              /\ mpc' = IF ProbeFailed /\ Len(probeLog') = max_failures
                        THEN "trigger" ELSE "sleep"
              /\ ~ProbeFailed => consecutive_failures' = 0
        /\ (mpc' = "trigger" /\ mpc /= "trigger") =>
              /\ ProbeFailed
              /\ result'[MonitorThread] = NoResult
        /\ (mpc = "trigger" /\ mpc' /= "trigger") =>
              /\ Returned(MonitorThread)
              /\ probeLog' = <<>>
      ]_vars

\* Reached: the third failed probe in a row made the monitor call stop.
ThirdFailureStops ==
    /\ mpc = "trigger"
    /\ pc[MonitorThread] = "t_lock"
    /\ Len(probeLog) = max_failures
    /\ consecutive_failures = max_failures

\* C12. No stop-retry storm: when the stop the monitor called has returned,
\* whatever it answered, the counter is 0; the monitor calls stop only with
\* max_failures failed probes made since its last stop returned; and the
\* counter never exceeds max_failures.
NoStopRetryStorm ==
    [][ /\ (mpc = "trigger" /\ mpc' /= "trigger") =>
              /\ Returned(MonitorThread)
              /\ consecutive_failures' = 0
        /\ MonitorInvokesStop => Len(probeLog) >= max_failures
        /\ consecutive_failures' \in 0..max_failures
      ]_vars

\* Reached: the monitor's stop answered something other than stopped, and
\* the counter is 0 again.
CounterResetAfterFailedStop ==
    /\ mpc = "sleep"
    /\ result[MonitorThread].status \in {"error", "not_running"}
    /\ consecutive_failures = 0

\* The managed child has exited on its own: the handle is that of a dead
\* child that no stop has signalled.
SelfExited ==
    /\ process /= NoProcess
    /\ process \notin alive
    /\ process \notin termSent

\* The stop the monitor called has returned and the manager is stopped; the
\* child is dead unless that stop answered error.
MonitorStopDone ==
    /\ mpc = "trigger"
    /\ Returned(MonitorThread)
    /\ ~is_running
    /\ result[MonitorThread].status /= "error" => alive = {}

\* C13. Liveness of the monitor: with the monitor loop running and not
\* cancelled, nobody else calling the manager and the monitor's thread
\* scheduled fairly, once the application has stopped answering for good
\* while the managed process runs, the monitor's call of stop eventually
\* returns with the manager stopped (or the child has exited on its own
\* before the third failed probe).
MonitorStopsDeadApp ==
    (appDead /\ is_running) ~> (MonitorStopDone \/ SelfExited)

\* Reached: the application died, the monitor's stop has stopped the child.
DeadAppTunnelStopped ==
    /\ appDead
    /\ mpc = "trigger"
    /\ result[MonitorThread] = Stopped
    /\ process = NoProcess
    /\ alive = {}

\* -------------------------------------------------- transient states
\* The statements of stop between its running check and its return: a stop
\* of the child is in progress.
StopInProgressPcs == {"t_term", "t_wait", "t_final", "t_kill", "t_reap", "t_clear"}

\* A start call of thread t returns error because its child exited in the
\* grace window.
GraceFailureReturns(t) ==
    /\ pc[t] = "s_grace"
    /\ pc'[t] = "idle"
    /\ result'[t].status = "error"

\* A get_status call of thread u returns running.
StatusReturnsRunning(u) ==
    /\ pc[u] = "g_cfg"
    /\ result'[u].status = "running"

\* The monitor's running check answers True.
MonitorSeesRunning == mpc = "chk_poll" /\ mpc' = "probe"

\* No status answer, and no running check of the monitor whose probe is in
\* flight, says running for a child whose start then returns error.
GraceWindowHidden ==
    \A t, u \in Threads :
        GraceFailureReturns(t) =>
            /\ ~(result[u].status = "running" /\ result[u].pid = process)
            /\ seenPid /= process

\* No status answer and no running check of the monitor says running for a
\* child that a stop is busy stopping.
StopWindowHidden ==
    \A t, u \in Threads :
        pc[t] \in StopInProgressPcs =>
            /\ StatusReturnsRunning(u) => result'[u].pid /= process
            /\ ~MonitorSeesRunning

\* C14. Transient states are not observable: a status call or a running
\* check of the monitor that runs concurrently with a start or a stop never
\* answers running for a child whose start is in its grace window and then
\* returns error, and never answers running for a child whose stop is in
\* progress.
TransientStatesHidden == [][GraceWindowHidden /\ StopWindowHidden]_vars

\* ------------------------------------------------- liveness re-verified
\* The handle is that of a child that has exited.
HandleOfExitedChild == process /= NoProcess /\ process \notin alive

\* C15. Liveness is re-verified, not cached: with the handle of a child that
\* has exited, the running check of start lets the call go on (it does not
\* answer already_running), the running check of stop answers not_running
\* and leaves the handle, and the poll of get_status answers stopped; the
\* Popen of a start creates a child that did not exist, and a start that
\* answers started answers with the pid of that child, alive.
LivenessReverified ==
    [][\A t \in Threads :
         /\ (pc[t] = "s_check" /\ HandleOfExitedChild /\ pc'[t] /= "s_check") =>
               /\ pc'[t] = "s_exe"
               /\ lock' = t
         /\ (pc[t] = "t_check" /\ HandleOfExitedChild /\ pc'[t] /= "t_check") =>
               /\ result'[t] = NotRunning
               /\ process' = process
         /\ (pc[t] = "g_poll" /\ HandleOfExitedChild /\ pc'[t] /= "g_poll") =>
               result'[t] = Stopped
         /\ (pc[t] = "s_spawn" /\ pc'[t] = "s_grace") =>
               /\ process' \notin alive \cup {process}
               /\ process' \in alive'
         /\ (pc[t] = "s_grace" /\ result'[t].status = "started") =>
               /\ result'[t].pid = process
               /\ process \in alive
      ]_vars

\* Reached: a start answered started with child 1, the child exited with no
\* stop having signalled it, and another thread's start passed the running
\* check and the path checks and is about to spawn.
ExitedChildRestarted ==
    \E t, u \in Threads :
        /\ result[t].status = "started"
        /\ result[t].pid = process
        /\ HandleOfExitedChild
        /\ process \notin termSent
        /\ pc[u] = "s_spawn"

\* ------------------------------------------------------ shutdown ordering
\* The order of the steps of SvcStop: cancel the monitor (and wait for it),
\* stop the tunnel, shut the server down (and wait for it), signal the event.
SvcOrder ==
    {<<"run", "cancel">>, <<"cancel", "join">>, <<"join", "tunnel">>,
     <<"tunnel", "shutdown">>, <<"shutdown", "shut_wait">>,
     <<"shutdown", "event">>, <<"shut_wait", "event">>, <<"event", "done">>}

\* C16. Shutdown ordering: SvcStop cancels the monitor, then calls the
\* manager's stop, then asks the server to shut down, then signals the stop
\* event, in that order; a step that raises is followed by the next step;
\* and once SvcStop is called the stop event is eventually signalled.
ShutdownOrdering ==
    /\ [][ /\ svc' /= svc => <<svc, svc'>> \in SvcOrder
           /\ (pc[ControlThread] = "idle" /\ pc'[ControlThread] /= "idle") =>
                 /\ svc = "tunnel"
                 /\ pc'[ControlThread] = "t_lock"
                 /\ ~monitor_is_running
                 /\ ~shutdown_request
           /\ (shutdown_request' /= shutdown_request) =>
                 /\ shutdown_request'
                 /\ svc = "shutdown"
                 /\ pc[ControlThread] = "idle"
           /\ (monitor_is_running' /= monitor_is_running) => svc = "cancel"
         ]_vars
    /\ (svc /= "run") ~> (svc = "done")

\* Reached: the stop event was signalled after a stop of the tunnel that
\* answered error and a shutdown of the server that raised.
ShutdownSurvivesFailures ==
    /\ svc = "done"
    /\ ~monitor_is_running
    /\ result[ControlThread].status = "error"
    /\ ~shutdown_request

\* ------------------------------------------------ monitor loop termination
\* C17. Monitor loop termination: the loop ends only at its loop test and
\* only when the monitor was cancelled, never because a cycle raised (a
\* cycle whose running check raises goes to its sleep); once cancelled the
\* loop begins no new cycle, so that a probe begins only in a cycle that
\* was let in before the cancellation; the cancellation changes nothing of
\* the cycle in flight, in particular not a stop in progress; and a loop
\* that has ended stays ended.
MonitorLoopTermination ==
    [][ /\ (mpc' = "exited" /\ mpc /= "exited") =>
              /\ mpc = "test"
              /\ ~monitor_is_running
        /\ mpc = "exited" => mpc' = "exited"
        /\ (mpc = "test" /\ mpc' /= "test") =>
              (mpc' = "chk_none" <=> monitor_is_running)
        /\ (mpc' = "chk_none" /\ mpc /= "chk_none") => mpc = "test"
        /\ (mpc' = "probe" /\ mpc /= "probe") => mpc = "chk_poll"
        /\ (mpc = "chk_poll" /\ process = NoProcess /\ mpc' /= mpc) =>
              mpc' = "sleep"
        /\ (monitor_is_running /\ ~monitor_is_running') =>
              /\ mpc' = mpc
              /\ pc'[MonitorThread] = pc[MonitorThread]
              /\ polls'[MonitorThread] = polls[MonitorThread]
              /\ lock' = lock
      ]_vars

\* Reached: the monitor was cancelled, the stop of its cycle in flight went
\* through, and the loop has ended.
MonitorExitedAfterStop ==
    /\ mpc = "exited"
    /\ ~monitor_is_running
    /\ result[MonitorThread] = Stopped

\* ---------------------------------------------------- concurrent requests
\* The server's thread is serving a request: it is inside a call of the
\* manager or has not yet sent what the call returned.
HttpBusy == pc[HttpThread] /= "idle" \/ result[HttpThread] /= NoResult

\* Requests that clients sent and the server has not taken.
RequestsWaiting == conns - (IF HttpBusy THEN 1 ELSE 0)

\* C18. Control requests are handled concurrently: whenever a request is
\* waiting and the server was not shut down, a /ping can be taken and
\* answered at once, whether or not another request (a /stop in its
\* termination wait, a /start in its grace window) is being served.
RequestsServedConcurrently ==
    (RequestsWaiting > 0 /\ ~shutdown_request) => ENABLED HttpPing

\* ------------------------------------------- no child survives shutdown
\* C19. No managed process survives shutdown: once SvcStop has signalled the
\* stop event no child is alive and the manager is stopped, whatever /start
\* requests were in flight or arrived and whatever the monitor was doing.
NoChildSurvivesShutdown ==
    svc = "done" => (alive = {} /\ ~is_running)

\* ------------------------------------------------- failures and runs
\* The step by which the stop the monitor called goes on to terminate the
\* child it found running.
MonitorStopsChild ==
    pc[MonitorThread] = "t_check" /\ pc'[MonitorThread] = "t_term"

\* C20, as stated. Failures are counted per run of the managed process: the
\* monitor stops a child only after max_failures failed probes in a row that
\* were all made while that same child was running.
FailuresCountedPerRun ==
    [][MonitorStopsChild =>
          /\ Len(probeLog) = max_failures
          /\ \A i \in 1..Len(probeLog) : probeLog[i] = process
      ]_vars

\* C20, amended. Failures are counted per monitor, not per run: the monitor
\* stops a child only after max_failures failed probes in a row, each made
\* in a cycle whose running check found a child alive, whichever child that
\* was; the counter is the number of those probes, and it changes only when
\* a probe ends, when the monitor's stop has returned and when the monitor
\* is started: a step of the control server (a stop, a restart) and a cycle
\* that makes no probe leave it as it is.
FailuresCountedAcrossRuns ==
    [][ /\ MonitorStopsChild =>
              /\ Len(probeLog) = max_failures
              /\ \A i \in 1..Len(probeLog) : probeLog[i] \in Pids
        /\ consecutive_failures' = Len(probeLog')
        /\ consecutive_failures' /= consecutive_failures =>
              \/ ProbeEnds
              \/ mpc = "trigger" /\ mpc' = "sleep"
              \/ mpc = "off"
      ]_vars

\* Reached: the monitor's stop terminates a child that was not running when
\* one of the three failed probes was made.
StopsChildOfLaterRun ==
    /\ mpc = "trigger"
    /\ pc[MonitorThread] = "t_term"
    /\ Len(probeLog) = max_failures
    /\ probeLog[1] /= process
    /\ probeLog[max_failures] = process
====
